---- MODULE Spec2Model ----
(***************************************************************************)
(* The account directory of user_management: UserService of                *)
(* app/services/user_service.py acting on the users table of               *)
(* app/models/user_model.py.                                               *)
(*                                                                         *)
(* Spec        one session, calls run one after the other (each action is  *)
(*             a whole UserService call, its commit included).             *)
(* SpecLogins  several sessions run login_user at once; a call is a read   *)
(*             of the row followed, later, by its flush and commit.        *)
(* SpecCreates several sessions run create at once; a call is its email    *)
(*             look-up, its count, and its INSERT and commit.              *)
(* SpecProfessional  one session, create and update_professional_status    *)
(*             with a notifier that delivers or raises.                    *)
(* SpecUpdate  one session, create, delete and update, the store failing   *)
(*             at any one step of update.                                  *)
(* SpecFaults  one session, every call with the store failing at its       *)
(*             query or at its commit.                                     *)
(* SpecProfile one session, create with profile data,                      *)
(*             get_profile_completion and update_profile_section.          *)
(* SpecCompletion  calculate_profile_completion on one account with any    *)
(*             of the profile fields filled.                               *)
(* SpecRegister  one session, create with the password policy of           *)
(*             UserCreate, and delete.                                     *)
(* SpecSearch  one session, create, update, search_users and               *)
(*             count_search_results.                                       *)
(* SpecNickname  one session, create given a nickname or none, and the     *)
(*             draws of the nickname generator.                            *)
(* SpecExpiry  one session, create, delete and verify_email_with_token     *)
(*             at any age of the token.                                    *)
(* SpecTriplets  countGoodTriplets of app/utils/triplet_counter.py on      *)
(*             every small array.                                          *)
(* SpecDirectory  one session, every sequential operation of the           *)
(*             directory.                                                  *)
(* SpecRoles   one session, create, delete, update of the role and         *)
(*             verify_email_with_token.                                    *)
(* SpecCredentials  one session, the operations that are given a password. *)
(* SpecRounding  calculate_profile_completion and                          *)
(*             get_profile_completion_details on one account.              *)
(***************************************************************************)
EXTENDS Integers, FiniteSets, Sequences, TLC

\* ------------------------------------------------------------------ bounds
\* Number of account ids (uuid4 values) the directory ever hands out.
MaxUsers == 2

\* settings.max_login_attempts, the K of the lockout rule.
max_login_attempts == 3

\* Number of sessions running login_user at once in SpecLogins.
NLogins == 3

\* Number of sessions running create at once in SpecCreates.
NCreates == 2

\* Length of the longest array given to countGoodTriplets.
MaxLen == 4

\* settings.verification_token_expire_hours, in hours.
verification_token_expire_hours == 2

\* ------------------------------------------------------------- input sets
Ids == 1..MaxUsers
NoId == 0
NULL == "NULL"

Emails == {"ann@example.com", "bob@example.com"}
Passwords == {"Secure*1234", "Other#5678"}
Tokens == {"tokA", "tokB"}
Nicknames == {"clever_fox_1", "brave_owl_2"}

\* UserRole
ANONYMOUS == "ANONYMOUS"
AUTHENTICATED == "AUTHENTICATED"
MANAGER == "MANAGER"
ADMIN == "ADMIN"
UserRole == {ANONYMOUS, AUTHENTICATED, MANAGER, ADMIN}

VARIABLES
    users,      \* the committed users table: account id -> row
    next_id,    \* the next fresh id (ids are never reused)
    last,       \* the last UserService call of the single session and its result
    streak,     \* history: the run of wrong-password logins in progress
    sessions    \* the concurrent sessions: session -> call in progress

vars == <<users, next_id, last, streak, sessions>>

\* ------------------------------------------------------ credential utility
\* A bcrypt digest is not the plaintext; it records what it was made from.
hash_password(password) == <<"bcrypt", password>>

verify_password(plain_password, hashed_password) ==
    hashed_password = hash_password(plain_password)

\* --------------------------------------------------------------- look-ups
get_by_email(table, email) ==
    IF \E i \in DOMAIN table : table[i].email = email
    THEN CHOOSE i \in DOMAIN table : table[i].email = email
    ELSE NoId

get_by_id(table, user_id) ==
    IF user_id \in DOMAIN table THEN user_id ELSE NoId

get_by_nickname(table, nickname) ==
    IF \E i \in DOMAIN table : table[i].nickname = nickname
    THEN CHOOSE i \in DOMAIN table : table[i].nickname = nickname
    ELSE NoId

count(table) == Cardinality(DOMAIN table)

\* Mutant of EmailInUse: the existing_user test left out.
EmailInUseNever(table, email) == FALSE

\* The existing_user test of create.
EmailInUse(table, email) == get_by_email(table, email) # NoId

\* The table with row i written (inserted or replaced).
Put(table, i, row) ==
    [j \in (DOMAIN table) \cup {i} |-> IF j = i THEN row ELSE table[j]]

\* Mutant of Remove: the row stays.
RemoveKeepsRow(table, i) == table

\* The table without row i.
Remove(table, i) == [j \in (DOMAIN table) \ {i} |-> table[j]]

\* ------------------------------------------------------------ row building
\* Mutant of BootstrapRole: the count compared off by one.
BootstrapRoleFirstTwo(user_count) == IF user_count <= 1 THEN ADMIN ELSE ANONYMOUS

\* The role create gives to the new account, from the count read before the
\* insert.
BootstrapRole(user_count) == IF user_count = 0 THEN ADMIN ELSE ANONYMOUS

\* The 17 columns calculate_profile_completion counts.
ProfileFields ==
    {"first_name", "last_name", "bio", "profile_picture_url",
     "linkedin_profile_url", "github_profile_url", "twitter_profile_url",
     "personal_website_url", "phone_number", "date_of_birth", "location",
     "skills", "interests", "education", "work_experience",
     "preferred_language", "timezone"}

\* The profile columns of an account created from an email and a password.
EmptyProfile == [f \in ProfileFields |-> NULL]

\* The row create builds: column defaults of the User model, then the
\* assignments of create.
NewUser(email, password, nickname, user_count, token) ==
    LET role == BootstrapRole(user_count) IN
    [ nickname              |-> nickname,
      email                 |-> email,
      hashed_password       |-> hash_password(password),
      role                  |-> role,
      email_verified        |-> (role = ADMIN),
      verification_token    |-> IF role = ADMIN THEN NULL ELSE token,
      failed_login_attempts |-> 0,
      is_locked             |-> FALSE,
      last_login_at         |-> NULL,
      profile               |-> EmptyProfile,
      profile_completion    |-> 0,
      is_professional       |-> FALSE,
      professional_status_updated_at |-> NULL ]

\* Mutant of ReachedMax: > for >=.
ReachedMaxOffByOne(attempts) == attempts > max_login_attempts

\* The threshold test of increment_failed_login_attempts.
ReachedMax(attempts) == attempts >= max_login_attempts

\* Mutant of increment_failed_login_attempts: the threshold test left out.
increment_failed_login_attempts_never_locks(user) ==
    [user EXCEPT !.failed_login_attempts = user.failed_login_attempts + 1]

increment_failed_login_attempts(user) ==
    LET n == user.failed_login_attempts + 1 IN
    [user EXCEPT !.failed_login_attempts = n,
                 !.is_locked = IF ReachedMax(n) THEN TRUE ELSE @]

\* Mutant of LoginBlocked: the email_verified test left out.
LoginBlockedWhenLockedOnly(user) == user.is_locked

\* Mutant of LoginBlocked: the is_locked test left out.
LoginBlockedIgnoresLock(user) == user.email_verified = FALSE

\* The checks of login_user on the row it fetched, before the password test.
LoginBlocked(user) == user.email_verified = FALSE \/ user.is_locked

\* Mutant of LoginSuccess: the counter is not reset.
LoginSuccessKeepsCounter(user) == [user EXCEPT !.last_login_at = "now"]

\* The row login_user writes on a password match.
LoginSuccess(user) ==
    [user EXCEPT !.failed_login_attempts = 0, !.last_login_at = "now"]

\* Mutant of ResetRow: the lock is not cleared.
ResetRowKeepsLock(user, new_password) ==
    [user EXCEPT !.hashed_password = hash_password(new_password),
                 !.failed_login_attempts = 0]

\* The row reset_password writes.
ResetRow(user, new_password) ==
    [user EXCEPT !.hashed_password = hash_password(new_password),
                 !.failed_login_attempts = 0,
                 !.is_locked = FALSE]

\* Mutant of TokenMatches: the token is not compared.
TokenMatchesAnyToken(table, user_id, token) == get_by_id(table, user_id) # NoId

\* The guard of verify_email_with_token.
TokenMatches(table, user_id, token) ==
    get_by_id(table, user_id) # NoId /\ table[user_id].verification_token = token

\* Mutant of VerifiedRow: the flag is not set.
VerifiedRowStaysUnverified(user) ==
    [user EXCEPT !.verification_token = NULL, !.role = AUTHENTICATED]

\* Mutant of VerifiedRow: the token is not cleared.
VerifiedRowKeepsToken(user) ==
    [user EXCEPT !.email_verified = TRUE, !.role = AUTHENTICATED]

\* The row verify_email_with_token writes.
VerifiedRow(user) ==
    [user EXCEPT !.email_verified = TRUE,
                 !.verification_token = NULL,
                 !.role = AUTHENTICATED]

\* Mutant of CanUnlock: the is_locked test left out.
CanUnlockAnyExisting(table, user_id) == get_by_id(table, user_id) # NoId

\* The guard of unlock_user_account.
CanUnlock(table, user_id) ==
    get_by_id(table, user_id) # NoId /\ table[user_id].is_locked

\* Mutant of UnlockedRow: the flag is not cleared.
UnlockedRowKeepsLock(user) == [user EXCEPT !.failed_login_attempts = 0]

\* The row unlock_user_account writes.
UnlockedRow(user) ==
    [user EXCEPT !.is_locked = FALSE, !.failed_login_attempts = 0]

\* ---------------------------------------------------- calls of one session
\* No digest (of a call that replaces none).
NoDigest == <<>>

\* The notifier was not called.
NotCalled == "not called"

\* A bool as the caller writes it.
Flag(b) == IF b THEN "True" ELSE "False"

\* A call and its result. The rest is history. old: the digest the call
\* replaced (reset_password that returned True). service: the email_service
\* the call was given, sent: the number of notifier calls the call made,
\* and seen: the committed is_professional of the account at the moment the
\* notifier was called. overall_completion: the overall_completion of the
\* details get_profile_completion returned. unlocked: the account
\* the call just before this one unlocked (unlock_user_account returned
\* True), if any.
Call(op, id, email, arg, ret) ==
    [op |-> op, id |-> id, email |-> email, arg |-> arg, ret |-> ret,
     old |-> NoDigest, service |-> "none", sent |-> 0, seen |-> NotCalled,
     overall_completion |-> 0,
     unlocked |-> IF last.op = "unlock_user_account" /\ last.ret = "True"
                  THEN last.id ELSE NoId]

NoCall ==
    [op |-> "none", id |-> NoId, email |-> NULL, arg |-> NULL, ret |-> "None",
     old |-> NoDigest, service |-> "none", sent |-> 0, seen |-> NotCalled,
     overall_completion |-> 0, unlocked |-> NoId]

Idle == [s \in {} |-> NoCall]

\* History of the single session: streak.n wrong-password login_user calls
\* were made in a row on account streak.id, the first of them on a verified,
\* unlocked account whose counter was 0, and no other call was made since.
NoStreak == [id |-> NoId, n |-> 0]

StreakAfterWrongPassword(id, row) ==
    IF streak.id = id /\ streak.n > 0 THEN [id |-> id, n |-> streak.n + 1]
    ELSE IF row.failed_login_attempts = 0 THEN [id |-> id, n |-> 1]
    ELSE NoStreak

\* The number of send_verification_email calls create makes once it has
\* read the count: one in the else branch of the role test, none for ADMIN.
VerificationEmails(user_count) ==
    IF BootstrapRole(user_count) = ADMIN THEN 0 ELSE 1

create(email, password) ==
    /\ \/ /\ EmailInUse(users, email)
          /\ last' = Call("create", NoId, email, password, "None")
          /\ UNCHANGED <<users, next_id>>
       \/ /\ ~EmailInUse(users, email)
          /\ next_id <= MaxUsers
          /\ \E nickname \in Nicknames, token \in Tokens :
                /\ get_by_nickname(users, nickname) = NoId
                /\ users' = Put(users, next_id,
                                NewUser(email, password, nickname, count(users), token))
          /\ next_id' = next_id + 1
          /\ last' = [Call("create", next_id, email, password, "account")
                         EXCEPT !.sent = VerificationEmails(count(users))]
    /\ streak' = NoStreak
    /\ UNCHANGED sessions

register_user(email, password) == create(email, password)

delete(user_id) ==
    /\ IF get_by_id(users, user_id) = NoId
       THEN /\ last' = Call("delete", user_id, NULL, NULL, "False")
            /\ UNCHANGED users
       ELSE /\ users' = Remove(users, user_id)
            /\ last' = Call("delete", user_id, NULL, NULL, "True")
    /\ streak' = NoStreak
    /\ UNCHANGED <<next_id, sessions>>

login_user(email, password) ==
    LET id == get_by_email(users, email) IN
    /\ IF id = NoId
       THEN /\ last' = Call("login_user", NoId, email, password, "None")
            /\ UNCHANGED users
       ELSE IF LoginBlocked(users[id])
       THEN /\ last' = Call("login_user", id, email, password, "None")
            /\ UNCHANGED users
       ELSE IF verify_password(password, users[id].hashed_password)
       THEN /\ users' = Put(users, id, LoginSuccess(users[id]))
            /\ last' = Call("login_user", id, email, password, "account")
       ELSE /\ users' = Put(users, id, increment_failed_login_attempts(users[id]))
            /\ last' = Call("login_user", id, email, password, "None")
    /\ streak' = IF id # NoId /\ ~LoginBlocked(users[id])
                    /\ ~verify_password(password, users[id].hashed_password)
                 THEN StreakAfterWrongPassword(id, users[id])
                 ELSE NoStreak
    /\ UNCHANGED <<next_id, sessions>>

reset_password(user_id, new_password) ==
    /\ IF get_by_id(users, user_id) # NoId
       THEN /\ users' = Put(users, user_id, ResetRow(users[user_id], new_password))
            /\ last' = [Call("reset_password", user_id, NULL, new_password, "True")
                           EXCEPT !.old = users[user_id].hashed_password]
       ELSE /\ last' = Call("reset_password", user_id, NULL, new_password, "False")
            /\ UNCHANGED users
    /\ streak' = NoStreak
    /\ UNCHANGED <<next_id, sessions>>

verify_email_with_token(user_id, token) ==
    /\ IF TokenMatches(users, user_id, token)
       THEN /\ users' = Put(users, user_id, VerifiedRow(users[user_id]))
            /\ last' = Call("verify_email_with_token", user_id, NULL, token, "True")
       ELSE /\ last' = Call("verify_email_with_token", user_id, NULL, token, "False")
            /\ UNCHANGED users
    /\ streak' = NoStreak
    /\ UNCHANGED <<next_id, sessions>>

unlock_user_account(user_id) ==
    /\ IF CanUnlock(users, user_id)
       THEN /\ users' = Put(users, user_id, UnlockedRow(users[user_id]))
            /\ last' = Call("unlock_user_account", user_id, NULL, NULL, "True")
       ELSE /\ last' = Call("unlock_user_account", user_id, NULL, NULL, "False")
            /\ UNCHANGED users
    /\ streak' = NoStreak
    /\ UNCHANGED <<next_id, sessions>>

Init ==
    /\ users = [i \in {} |-> NoCall]
    /\ next_id = 1
    /\ last = NoCall
    /\ streak = NoStreak
    /\ sessions = Idle

Next ==
    \/ \E email \in Emails, password \in Passwords : create(email, password)
    \/ \E email \in Emails, password \in Passwords : register_user(email, password)
    \/ \E user_id \in Ids : delete(user_id)
    \/ \E email \in Emails, password \in Passwords : login_user(email, password)
    \/ \E user_id \in Ids, password \in Passwords : reset_password(user_id, password)
    \/ \E user_id \in Ids, token \in Tokens : verify_email_with_token(user_id, token)
    \/ \E user_id \in Ids : unlock_user_account(user_id)

Spec == Init /\ [][Next]_vars

\* ------------------------------------------------------ professional status
\* The email_service argument: left out (None), or an EmailService whose
\* send_professional_status_notification delivers, or one whose send raises.
EmailServices == {"none", "delivers", "raises"}

\* What the store does with the call's statements and commit.
StoreOutcomes == {"ok", "fails"}

\* Mutant of SendNotification: every change to professional is announced.
SendNotificationOnEveryTrue(user, is_professional) == is_professional

\* send_notification of update_professional_status, from the row as loaded.
SendNotification(user, is_professional) ==
    ~user.is_professional /\ is_professional

\* User.update_professional_status.
ProfessionalRow(user, status) ==
    [user EXCEPT !.is_professional = status,
                 !.professional_status_updated_at = "now"]

\* The committed is_professional of the account when the notifier is called:
\* the call has committed (table is the table before the call, committed
\* the table its commit left).
CommittedAtNotification(table, committed, user_id) ==
    Flag(committed[user_id].is_professional)

\* Mutant of ReturnAfterNotifier: a raising notifier fails the call.
ReturnAfterNotifierSurfaces(called, email_service) ==
    IF called /\ email_service = "raises" THEN "None" ELSE "account"

\* What update_professional_status returns once it has committed: the
\* notifier's exception, if any, is logged and dropped.
ReturnAfterNotifier(called, email_service) == "account"

update_professional_status(user_id, is_professional, email_service, store) ==
    /\ IF store = "fails" \/ get_by_id(users, user_id) = NoId
       THEN /\ last' = [Call("update_professional_status", user_id, NULL,
                              Flag(is_professional), "None")
                        EXCEPT !.service = email_service]
            /\ UNCHANGED users
       ELSE LET committed == Put(users, user_id,
                                 ProfessionalRow(users[user_id], is_professional))
                called == SendNotification(users[user_id], is_professional)
                          /\ email_service # "none"
            IN /\ users' = committed
               /\ last' = [Call("update_professional_status", user_id, NULL,
                                 Flag(is_professional),
                                 ReturnAfterNotifier(called, email_service))
                           EXCEPT !.service = email_service,
                                  !.sent = IF called THEN 1 ELSE 0,
                                  !.seen = IF called
                                           THEN CommittedAtNotification(
                                                    users, committed, user_id)
                                           ELSE NotCalled]
    /\ streak' = NoStreak
    /\ UNCHANGED <<next_id, sessions>>

NextProfessional ==
    \/ \E email \in Emails : create(email, "Secure*1234")
    \/ \E user_id \in Ids, is_professional \in BOOLEAN,
          email_service \in EmailServices, store \in StoreOutcomes :
            update_professional_status(user_id, is_professional, email_service, store)

SpecProfessional == Init /\ [][NextProfessional]_vars

\* ------------------------------------------------------ concurrent sessions
\* Each session is an AsyncSession of its own running one call. pc is the
\* await the call is suspended at; snap is the row as it was loaded, row the
\* session's in-memory copy with the call's assignments.
NoRow == NewUser(NULL, NULL, NULL, 1, NULL)

Session(pc, email, arg, id, snap, row, nickname, user_count, ret) ==
    [pc |-> pc, email |-> email, arg |-> arg, id |-> id, snap |-> snap,
     row |-> row, nickname |-> nickname, user_count |-> user_count, ret |-> ret]

IdleSession == Session("idle", NULL, NULL, NoId, NoRow, NoRow, NULL, 0, "None")

\* The UPDATE a commit flushes: the unit of work writes the columns whose
\* in-memory value differs from the loaded one, and no others.
Flush(current, loaded, pending) ==
    [c \in DOMAIN current |->
        IF pending[c] # loaded[c] THEN pending[c] ELSE current[c]]

LoginSessions == 1..NLogins

\* login_user up to its commit: the SELECT by email, the checks, and the
\* assignments made on the loaded object.
LoginRead(s, email, password) ==
    LET id == get_by_email(users, email) IN
    /\ sessions[s].pc = "idle"
    /\ sessions' = [sessions EXCEPT ![s] =
          IF id = NoId \/ LoginBlocked(users[id])
          THEN Session("done", email, password, id, NoRow, NoRow, NULL, 0, "None")
          ELSE IF verify_password(password, users[id].hashed_password)
          THEN Session("commit", email, password, id, users[id],
                       LoginSuccess(users[id]), NULL, 0, "account")
          ELSE Session("commit", email, password, id, users[id],
                       increment_failed_login_attempts(users[id]), NULL, 0, "None")]
    /\ UNCHANGED <<users, next_id, last, streak>>

\* The session.commit() of login_user or of increment_failed_login_attempts.
LoginCommit(s) ==
    /\ sessions[s].pc = "commit"
    /\ users' = Put(users, sessions[s].id,
                    Flush(users[sessions[s].id], sessions[s].snap, sessions[s].row))
    /\ sessions' = [sessions EXCEPT ![s].pc = "done"]
    /\ UNCHANGED <<next_id, last, streak>>

\* The directory after its first create: the bootstrap account alone.
InitLogins ==
    /\ users = Put([i \in {} |-> NoRow], 1,
                   NewUser("ann@example.com", "Secure*1234", "clever_fox_1", 0, NULL))
    /\ next_id = 2
    /\ last = [NoCall EXCEPT !.op = "create", !.id = 1, !.email = "ann@example.com",
                           !.arg = "Secure*1234", !.ret = "account"]
    /\ streak = NoStreak
    /\ sessions = [s \in LoginSessions |-> IdleSession]

NextLogins ==
    \/ \E s \in LoginSessions, email \in Emails, password \in Passwords :
          LoginRead(s, email, password)
    \/ \E s \in LoginSessions : LoginCommit(s)

SpecLogins == InitLogins /\ [][NextLogins]_vars

CreateSessions == 1..NCreates

\* create up to its first await: validation and the SELECT by email.
CreateCheckEmail(s, email, password) ==
    /\ sessions[s].pc = "idle"
    /\ sessions' = [sessions EXCEPT ![s] =
          IF EmailInUse(users, email)
          THEN Session("done", email, password, NoId, NoRow, NoRow, NULL, 0, "None")
          ELSE Session("nickname", email, password, NoId, NoRow, NoRow, NULL, 0, "None")]
    /\ UNCHANGED <<users, next_id, last, streak>>

\* The nickname loop: it ends with a nickname no committed row uses.
CreateNickname(s) ==
    /\ sessions[s].pc = "nickname"
    /\ \E nickname \in Nicknames :
          /\ get_by_nickname(users, nickname) = NoId
          /\ sessions' = [sessions EXCEPT ![s].pc = "count",
                                          ![s].nickname = nickname]
    /\ UNCHANGED <<users, next_id, last, streak>>

\* The SELECT count(*) and the role, flag and token assignments that follow.
CreateCount(s) ==
    /\ sessions[s].pc = "count"
    /\ \E token \in Tokens :
          sessions' = [sessions EXCEPT
              ![s].pc = "commit",
              ![s].user_count = count(users),
              ![s].row = NewUser(sessions[s].email, sessions[s].arg,
                                 sessions[s].nickname, count(users), token)]
    /\ UNCHANGED <<users, next_id, last, streak>>

\* The unique constraints of the users table (email, nickname).
UniqueViolation(table, row) ==
    \E i \in DOMAIN table :
        table[i].email = row.email \/ table[i].nickname = row.nickname

\* Mutant of CountAtCommit: the count is read again inside the insert's
\* transaction.
CountAtCommitReread(table, user_count) == count(table)

\* The count the inserted row's role rests on: the one read by CreateCount,
\* which the commit does not read again.
CountAtCommit(table, user_count) == user_count

\* session.add(new_user) and session.commit(): the INSERT. An IntegrityError
\* is no ValidationError, so create does not catch it.
CreateCommit(s) ==
    /\ sessions[s].pc = "commit"
    /\ IF UniqueViolation(users, sessions[s].row)
       THEN /\ sessions' = [sessions EXCEPT ![s].pc = "done",
                                            ![s].ret = "IntegrityError"]
            /\ UNCHANGED <<users, next_id>>
       ELSE /\ users' = Put(users, next_id,
                  [sessions[s].row EXCEPT
                      !.role = BootstrapRole(CountAtCommit(users, sessions[s].user_count)),
                      !.email_verified =
                          (BootstrapRole(CountAtCommit(users, sessions[s].user_count)) = ADMIN)])
            /\ next_id' = next_id + 1
            /\ sessions' = [sessions EXCEPT ![s].pc = "done", ![s].id = next_id,
                                            ![s].ret = "account"]
    /\ UNCHANGED <<last, streak>>

InitCreates ==
    /\ users = [i \in {} |-> NoRow]
    /\ next_id = 1
    /\ last = NoCall
    /\ streak = NoStreak
    /\ sessions = [s \in CreateSessions |-> IdleSession]

NextCreates ==
    \/ \E s \in CreateSessions, email \in Emails, password \in Passwords :
          CreateCheckEmail(s, email, password)
    \/ \E s \in CreateSessions : CreateNickname(s)
    \/ \E s \in CreateSessions : CreateCount(s)
    \/ \E s \in CreateSessions : CreateCommit(s)

SpecCreates == InitCreates /\ [][NextCreates]_vars

\* ------------------------------------------------------------------- update
\* update_data as UserUpdate keeps it (model_dump(exclude_unset=True)): the
\* keys the caller gave, each with a value or None.
\* The patches the model feeds to update: none, a first name (set or
\* cleared), an email, a nickname, an email or nickname set to None next
\* to a first name, and a password, alone or next to a first name.
Patches ==
    {[c \in {} |-> NULL]}
    \cup {[c \in {"password"} |-> "Other#5678"],
          [c \in {"password", "first_name"} |->
              IF c = "password" THEN "Other#5678" ELSE "Ann"]}
    \cup {[c \in {"first_name"} |-> v] : v \in {"Ann", NULL}}
    \cup {[c \in {"email"} |-> v] : v \in Emails}
    \cup {[c \in {"nickname"} |-> v] : v \in Nicknames}
    \cup {[c \in {k, "first_name"} |-> IF c = k THEN NULL ELSE "Ann"] :
              k \in {"email", "nickname"}}

\* Python truth of the value given for key c: None is false, and so is the
\* integer 0 (profile_completion is the one integer a patch can carry).
Truthy(c, v) == IF c = "profile_completion" THEN v # 0 ELSE v # NULL

\* check_at_least_one_value of UserUpdate (pre=True: it sees the caller's
\* dict as given): some value of the patch is truthy.
ValidPatch(patch) == \E c \in DOMAIN patch : Truthy(c, patch[c])

\* The fields of UserUpdate. There is no password among them.
UserUpdateFields ==
    {"email", "nickname", "profile_completion", "role"} \cup ProfileFields

\* UserUpdate(**update_data).model_dump(exclude_unset=True): the keys given
\* that are fields of the schema; the others are ignored.
model_dump(patch) == [c \in DOMAIN patch \cap UserUpdateFields |-> patch[c]]

\* The password branch of update: a password in validated_data is replaced
\* by its digest.
WithHashedPassword(validated_data) ==
    IF "password" \in DOMAIN validated_data
    THEN [c \in (DOMAIN validated_data \ {"password"}) \cup {"hashed_password"} |->
            IF c = "hashed_password"
            THEN hash_password(validated_data["password"])
            ELSE validated_data[c]]
    ELSE validated_data

\* The values of the UPDATE statement update builds from the caller's patch.
Values(patch) == WithHashedPassword(model_dump(patch))

\* The row the UPDATE statement sets: .values(**validated_data).
PatchedRow(user, patch) ==
    [c \in DOMAIN user |->
        IF c = "profile"
        THEN [f \in ProfileFields |->
                IF f \in DOMAIN patch THEN patch[f] ELSE user.profile[f]]
        ELSE IF c \in DOMAIN patch THEN patch[c] ELSE user[c]]

\* Mutant of ConstraintViolation: the unique constraints dropped.
ConstraintViolationNotNullOnly(table, user_id, row) ==
    row.email = NULL \/ row.nickname = NULL

\* The constraints of the users table an UPDATE of row user_id can break:
\* email and nickname are NOT NULL and unique among the other rows.
ConstraintViolation(table, user_id, row) ==
    \/ row.email = NULL \/ row.nickname = NULL
    \/ UniqueViolation(Remove(table, user_id), row)

\* Mutant of Round: the fraction is dropped.
RoundDown(n, d) == n \div d

\* Mutant of Round: to the nearest multiple of ten.
RoundToTens(n, d) == 10 * ((n + 5 * d) \div (10 * d))

\* Python's round(n / d) for n >= 0, d > 0: to the nearest integer, ties to
\* the even one.
Round(n, d) ==
    LET q == n \div d
        r == n % d
    IN IF 2 * r > d THEN q + 1
       ELSE IF 2 * r < d THEN q
       ELSE IF q % 2 = 0 THEN q ELSE q + 1

\* User.calculate_profile_completion.
calculate_profile_completion(user) ==
    LET filled_fields == Cardinality({f \in ProfileFields : user.profile[f] # NULL})
        total_fields == Cardinality(ProfileFields)
    IN [user EXCEPT !.profile_completion = Round(filled_fields * 100, total_fields)]

\* The step of a call at which the store fails (raises SQLAlchemyError), or
\* none of them failing. UPDATE: the statement of update or the commit that
\* _execute_query issues after it. SELECT: the query of _fetch_user. COMMIT:
\* the commit the call itself issues.
StoreSteps == {"UPDATE", "SELECT", "COMMIT"}
NoFault == "nothing"

\* The table after the UPDATE statement of update and the commit of
\* _execute_query: a failing statement or commit, and a constraint violation,
\* are rolled back there and the table is as it was.
AfterUpdateStatement(table, user_id, patch, failing) ==
    IF failing = "UPDATE" \/ get_by_id(table, user_id) = NoId
       \/ ConstraintViolation(table, user_id,
                              PatchedRow(table[user_id], Values(patch)))
    THEN table
    ELSE Put(table, user_id, PatchedRow(table[user_id], Values(patch)))

\* What update returns.
UpdateReturn(table, user_id, patch, failing) ==
    IF ~ValidPatch(patch) THEN "None"
    ELSE IF failing = "SELECT" \/ failing = "COMMIT"
            \/ get_by_id(AfterUpdateStatement(table, user_id, patch, failing),
                         user_id) = NoId
    THEN "None"
    ELSE "account"

\* The table update leaves committed.
UpdateCommitted(table, user_id, patch, failing) ==
    LET written == AfterUpdateStatement(table, user_id, patch, failing) IN
    IF ~ValidPatch(patch) THEN table
    ELSE IF UpdateReturn(table, user_id, patch, failing) = "None" THEN written
    ELSE Put(written, user_id, calculate_profile_completion(written[user_id]))

\* update. The outcome of _execute_query is not looked at; the row is read
\* again, its completion recomputed and committed by a second commit.
update(user_id, patch, failing) ==
    /\ last' = Call("update", user_id, NULL, patch,
                    UpdateReturn(users, user_id, patch, failing))
    /\ users' = UpdateCommitted(users, user_id, patch, failing)
    /\ streak' = NoStreak
    /\ UNCHANGED <<next_id, sessions>>

NextUpdate ==
    \/ \E email \in Emails : create(email, "Secure*1234")
    \/ \E user_id \in Ids : delete(user_id)
    \/ \E user_id \in Ids, patch \in Patches,
          failing \in StoreSteps \cup {NoFault} : update(user_id, patch, failing)

SpecUpdate == Init /\ [][NextUpdate]_vars

\* ---------------------------------------------------------- profile sections
\* Mutant of section_field_map: a fourth section, "settings", is known.
section_field_map_with_settings(section) ==
    CASE section = "basic_info" ->
            {"first_name", "last_name", "bio", "profile_picture_url",
             "phone_number", "date_of_birth", "location"}
      [] section = "professional_info" ->
            {"linkedin_profile_url", "github_profile_url", "twitter_profile_url",
             "personal_website_url", "skills", "work_experience", "education"}
      [] section = "preferences" ->
            {"interests", "preferred_language", "timezone"}
      [] OTHER -> {"first_name", "timezone"}

\* section_field_map of update_profile_section: the fields of a section; a
\* name that is not a key of the dict has none.
section_field_map(section) ==
    CASE section = "basic_info" ->
            {"first_name", "last_name", "bio", "profile_picture_url",
             "phone_number", "date_of_birth", "location"}
      [] section = "professional_info" ->
            {"linkedin_profile_url", "github_profile_url", "twitter_profile_url",
             "personal_website_url", "skills", "work_experience", "education"}
      [] section = "preferences" ->
            {"interests", "preferred_language", "timezone"}
      [] OTHER -> {}

\* Mutant of FilteredData: the payload is passed on whole.
FilteredDataUnfiltered(section, section_data) == section_data

\* update_data of update_profile_section: the payload's keys that are fields
\* of the section.
FilteredData(section, section_data) ==
    [k \in DOMAIN section_data \cap section_field_map(section) |-> section_data[k]]

\* The section names given to update_profile_section: the three of the map
\* and one that is none of them.
Sections == {"basic_info", "professional_info", "preferences", "settings"}

\* The payloads given to update_profile_section: a first name; a first name
\* with an email (no profile field) or with a timezone (a field of another
\* section); an email alone.
SectionPayloads ==
    {[k \in {"first_name"} |-> "Ann"],
     [k \in {"first_name", "email"} |->
        IF k = "email" THEN "bob@example.com" ELSE "Ann"],
     [k \in {"first_name", "timezone"} |-> IF k = "timezone" THEN "UTC" ELSE "Ann"],
     [k \in {"email"} |-> "bob@example.com"]}

update_profile_section(user_id, section, section_data) ==
    LET update_data == FilteredData(section, section_data)
        refused == get_by_id(users, user_id) = NoId
                   \/ section_field_map(section) = {}
    IN
    /\ last' = Call("update_profile_section", user_id, NULL,
                    [section |-> section, section_data |-> section_data],
                    IF refused THEN "None"
                    ELSE UpdateReturn(users, user_id, update_data, NoFault))
    /\ users' = IF refused THEN users
                ELSE UpdateCommitted(users, user_id, update_data, NoFault)
    /\ streak' = NoStreak
    /\ UNCHANGED <<next_id, sessions>>

\* What a caller of create can give besides email and password: nothing, a
\* first name, or a profile_completion (UserCreate has both fields).
UserData ==
    {[k \in {} |-> NULL],
     [k \in {"first_name"} |-> "Ann"],
     [k \in {"profile_completion"} |-> 85]}

\* User(**validated_data): the columns the caller gave are set as given, the
\* others are as in NewUser.
UserFrom(row, user_data) == PatchedRow(row, user_data)

\* create with user_data that carries more than email and password. Nothing
\* in create computes profile_completion.
create_user_data(email, password, user_data) ==
    /\ \/ /\ EmailInUse(users, email)
          /\ last' = Call("create", NoId, email, password, "None")
          /\ UNCHANGED <<users, next_id>>
       \/ /\ ~EmailInUse(users, email)
          /\ next_id <= MaxUsers
          /\ \E nickname \in Nicknames, token \in Tokens :
                /\ get_by_nickname(users, nickname) = NoId
                /\ users' = Put(users, next_id,
                                UserFrom(NewUser(email, password, nickname,
                                                 count(users), token),
                                         user_data))
          /\ next_id' = next_id + 1
          /\ last' = [Call("create", next_id, email, password, "account")
                         EXCEPT !.sent = VerificationEmails(count(users))]
    /\ streak' = NoStreak
    /\ UNCHANGED sessions

\* get_profile_completion: the completion is computed on the loaded object
\* and returned in the details; the call neither adds nor commits, so the
\* table is as it was.
get_profile_completion(user_id) ==
    /\ IF get_by_id(users, user_id) = NoId
       THEN last' = Call("get_profile_completion", user_id, NULL, NULL, "None")
       ELSE last' = [Call("get_profile_completion", user_id, NULL, NULL, "details")
                       EXCEPT !.overall_completion =
                           calculate_profile_completion(users[user_id]).profile_completion]
    /\ streak' = NoStreak
    /\ UNCHANGED <<users, next_id, sessions>>

NextProfile ==
    \/ \E email \in Emails, user_data \in UserData :
          create_user_data(email, "Secure*1234", user_data)
    \/ \E user_id \in Ids : get_profile_completion(user_id)
    \/ \E user_id \in Ids, section \in Sections, section_data \in SectionPayloads :
          update_profile_section(user_id, section, section_data)

SpecProfile == Init /\ [][NextProfile]_vars

\* ------------------------------------------------------ completion function
\* An account whose filled profile fields are exactly those of filled.
UserWithFilled(filled) ==
    [NewUser("ann@example.com", "Secure*1234", "clever_fox_1", 0, NULL)
        EXCEPT !.profile = [f \in ProfileFields |->
                              IF f \in filled THEN "filled" ELSE NULL]]

\* One account, with any combination of filled and empty profile fields.
InitCompletion ==
    /\ \E filled \in SUBSET ProfileFields : users = [i \in {1} |-> UserWithFilled(filled)]
    /\ next_id = 2
    /\ last = NoCall
    /\ streak = NoStreak
    /\ sessions = Idle

\* user.calculate_profile_completion(): the value is stored on the row and
\* returned.
CalculateCompletion(user_id) ==
    /\ user_id \in DOMAIN users
    /\ users' = Put(users, user_id, calculate_profile_completion(users[user_id]))
    /\ last' = [Call("calculate_profile_completion", user_id, NULL, NULL, "int")
                   EXCEPT !.overall_completion =
                       calculate_profile_completion(users[user_id]).profile_completion]
    /\ streak' = NoStreak
    /\ UNCHANGED <<next_id, sessions>>

NextCompletion == \E user_id \in Ids : CalculateCompletion(user_id)

SpecCompletion == InitCompletion /\ [][NextCompletion]_vars

\* --------------------------------------------------- completion details
\* The sections of get_profile_completion_details and the columns each
\* looks at (the same columns as the sections of update_profile_section).
DetailSections == {"basic_info", "professional_info", "preferences"}

\* section_completion of get_profile_completion_details.
section_completion(user) ==
    [section \in DetailSections |->
        LET completed == Cardinality({f \in section_field_map(section) :
                                         user.profile[f] # NULL})
            total == Cardinality(section_field_map(section))
        IN Round(completed * 100, total)]

\* user.get_profile_completion_details(): ret is the dict returned, without
\* its field_status. Nothing is written.
GetProfileCompletionDetails(user_id) ==
    /\ user_id \in DOMAIN users
    /\ last' = Call("get_profile_completion_details", user_id, NULL, NULL,
                    [overall_completion |-> users[user_id].profile_completion,
                     section_completion |-> section_completion(users[user_id])])
    /\ streak' = NoStreak
    /\ UNCHANGED <<users, next_id, sessions>>

NextRounding ==
    \/ \E user_id \in Ids : CalculateCompletion(user_id)
    \/ \E user_id \in Ids : GetProfileCompletionDetails(user_id)

SpecRounding == InitCompletion /\ [][NextRounding]_vars

\* --------------------------------------------------------- password policy
\* Passwords that break one rule of the policy each: too short, no uppercase
\* letter, no lowercase letter, no digit, no special character.
WeakPasswords ==
    {"Sh*rt12", "nouppercase123!", "NOLOWERCASE123!", "NoDigits!!",
     "NoSpecialChars123"}

\* The characters of the strings of the model (passwords, emails, nicknames,
\* names, search terms); the empty string has none.
Spelling(password) ==
    CASE password = "Secure*1234" ->
            <<"S", "e", "c", "u", "r", "e", "*", "1", "2", "3", "4">>
      [] password = "Other#5678" ->
            <<"O", "t", "h", "e", "r", "#", "5", "6", "7", "8">>
      [] password = "Sh*rt12" ->
            <<"S", "h", "*", "r", "t", "1", "2">>
      [] password = "nouppercase123!" ->
            <<"n", "o", "u", "p", "p", "e", "r", "c", "a", "s", "e", "1", "2", "3", "!">>
      [] password = "NOLOWERCASE123!" ->
            <<"N", "O", "L", "O", "W", "E", "R", "C", "A", "S", "E", "1", "2", "3", "!">>
      [] password = "NoDigits!!" ->
            <<"N", "o", "D", "i", "g", "i", "t", "s", "!", "!">>
      [] password = "NoSpecialChars123" ->
            <<"N", "o", "S", "p", "e", "c", "i", "a", "l", "C", "h", "a", "r", "s", "1", "2", "3">>
      [] password = "ann@example.com" ->
            <<"a", "n", "n", "@", "e", "x", "a", "m", "p", "l", "e", ".",
              "c", "o", "m">>
      [] password = "bob@example.com" ->
            <<"b", "o", "b", "@", "e", "x", "a", "m", "p", "l", "e", ".",
              "c", "o", "m">>
      [] password = "clever_fox_1" ->
            <<"c", "l", "e", "v", "e", "r", "_", "f", "o", "x", "_", "1">>
      [] password = "brave_owl_2" ->
            <<"b", "r", "a", "v", "e", "_", "o", "w", "l", "_", "2">>
      [] password = "Ann" ->
            <<"A", "n", "n">>
      [] password = "ANN" ->
            <<"A", "N", "N">>
      [] password = "fox" ->
            <<"f", "o", "x">>
      [] password = "a_n" ->
            <<"a", "_", "n">>
      [] OTHER -> <<>>

\* [A-Z], [a-z] and \\d of validate_password, over ASCII.
UpperCase ==
    {"A", "B", "C", "D", "E", "F", "G", "H", "I", "J", "K", "L", "M", "N",
     "O", "P", "Q", "R", "S", "T", "U", "V", "W", "X", "Y", "Z"}

LowerCase ==
    {"a", "b", "c", "d", "e", "f", "g", "h", "i", "j", "k", "l", "m", "n",
     "o", "p", "q", "r", "s", "t", "u", "v", "w", "x", "y", "z"}

Digits ==
    {"0", "1", "2", "3", "4", "5", "6", "7", "8", "9"}

\* re.search(class, v): some character of v is in the class.
Search(class, v) == \E n \in 1..Len(v) : v[n] \in class

\* re.search(r'[^A-Za-z0-9]', v): some character of v is in none of them.
SearchSpecial(v) ==
    \E n \in 1..Len(v) : v[n] \notin UpperCase \cup LowerCase \cup Digits

\* password: str = Field(..., min_length=8) of UserCreate.
min_length == 8

\* Mutant of validate_password: the digit rule left out.
validate_password_without_digit(password) ==
    LET v == Spelling(password) IN
    /\ Len(v) >= min_length
    /\ Search(UpperCase, v)
    /\ Search(LowerCase, v)
    /\ SearchSpecial(v)

\* UserCreate accepts the password: min_length, then validate_password.
validate_password(password) ==
    LET v == Spelling(password) IN
    /\ Len(v) >= min_length
    /\ Search(UpperCase, v)
    /\ Search(LowerCase, v)
    /\ Search(Digits, v)
    /\ SearchSpecial(v)

\* create from its first line: UserCreate(**user_data) raises ValidationError
\* for a password outside the policy, which create catches and turns into
\* None before it has looked at the store.
create_validated(email, password) ==
    IF validate_password(password)
    THEN create(email, password)
    ELSE /\ last' = Call("create", NoId, email, password, "None")
         /\ streak' = NoStreak
         /\ UNCHANGED <<users, next_id, sessions>>

NextRegister ==
    \/ \E email \in Emails, password \in Passwords \cup WeakPasswords :
          create_validated(email, password)
    \/ \E user_id \in Ids : delete(user_id)

SpecRegister == Init /\ [][NextRegister]_vars

\* -------------------------------------------------------------- nicknames
\* The nickname a caller of create can give: none, or one of its choosing.
SuppliedNicknames == {NULL, "john_doe_7"}

\* What generate_nickname yields over the calls of one create: the first
\* call and one more for every turn of the loop.
Draws == UNION {[1..n -> Nicknames] : n \in 1..MaxUsers}

\* The loop `while await cls.get_by_nickname(session, new_nickname)` runs
\* through draws: every draw but the last is in use, the last is not.
LoopEndsWith(table, draws) ==
    /\ \A n \in 1..(Len(draws) - 1) : get_by_nickname(table, draws[n]) # NoId
    /\ get_by_nickname(table, draws[Len(draws)]) = NoId

\* create given a nickname (or none): User(**validated_data) takes the
\* nickname of the caller, and new_user.nickname = new_nickname follows.
create_nicknamed(email, password, nickname, draws) ==
    /\ \/ /\ EmailInUse(users, email)
          /\ last' = Call("create", NoId, email,
                          [nickname |-> nickname, draws |-> draws], "None")
          /\ UNCHANGED <<users, next_id>>
       \/ /\ ~EmailInUse(users, email)
          /\ next_id <= MaxUsers
          /\ LoopEndsWith(users, draws)
          /\ \E token \in Tokens :
                users' = Put(users, next_id,
                             [NewUser(email, password, nickname, count(users), token)
                                EXCEPT !.nickname = draws[Len(draws)]])
          /\ next_id' = next_id + 1
          /\ last' = [Call("create", next_id, email,
                           [nickname |-> nickname, draws |-> draws], "account")
                         EXCEPT !.sent = VerificationEmails(count(users))]
    /\ streak' = NoStreak
    /\ UNCHANGED sessions

NextNickname ==
    \/ \E email \in Emails, nickname \in SuppliedNicknames, draws \in Draws :
          create_nicknamed(email, "Secure*1234", nickname, draws)
    \/ \E user_id \in Ids : delete(user_id)

SpecNickname == Init /\ [][NextNickname]_vars

\* ------------------------------------------------------------ token expiry
\* The ages (in hours, since create issued the token) at which a
\* verification link is followed: from at once to after the expiry time.
Ages == 0..(verification_token_expire_hours + 1)

\* verify_email_with_token called when the token of the account is age
\* hours old. The users table has no column for the time of issue and the
\* call reads no clock: age is the circumstance of the call, nothing more.
verify_email_with_token_at(user_id, token, age) ==
    /\ IF TokenMatches(users, user_id, token)
       THEN /\ users' = Put(users, user_id, VerifiedRow(users[user_id]))
            /\ last' = Call("verify_email_with_token", user_id, NULL,
                            [token |-> token, age |-> age], "True")
       ELSE /\ last' = Call("verify_email_with_token", user_id, NULL,
                            [token |-> token, age |-> age], "False")
            /\ UNCHANGED users
    /\ streak' = NoStreak
    /\ UNCHANGED <<next_id, sessions>>

NextExpiry ==
    \/ \E email \in Emails : create(email, "Secure*1234")
    \/ \E user_id \in Ids, token \in Tokens, age \in Ages :
          verify_email_with_token_at(user_id, token, age)
    \/ \E user_id \in Ids : delete(user_id)

SpecExpiry == Init /\ [][NextExpiry]_vars

\* --------------------------------------------------------- triplet counter
\* The arrays given to countGoodTriplets: up to MaxLen integers, some
\* negative; and the bounds a, b, c, one of them negative.
ArrayValues == -1..2
Arrays == UNION {[1..n -> ArrayValues] : n \in 0..MaxLen}
TripletBounds == -1..3

\* Mutant of Abs: the sign is kept.
AbsSigned(x) == x

\* abs
Abs(x) == IF x < 0 THEN -x ELSE x

\* combinations(range(len(arr)), 3): the index triples in increasing order.
combinations3(n) ==
    {t \in (1..n) \X (1..n) \X (1..n) : t[1] < t[2] /\ t[2] < t[3]}

\* sum(abs(arr[i]-arr[k]) <= c for i,j,k in triples): a True counts 1 and
\* a False 0.
RECURSIVE SumOfTests(_, _, _)
SumOfTests(arr, c, triples) ==
    IF triples = {} THEN 0
    ELSE LET t == CHOOSE t \in triples : TRUE IN
         (IF Abs(arr[t[1]] - arr[t[3]]) <= c THEN 1 ELSE 0)
            + SumOfTests(arr, c, triples \ {t})

\* Solution.countGoodTriplets: the triples that pass the `if` are summed.
countGoodTriplets(arr, a, b, c) ==
    SumOfTests(arr, c,
               {t \in combinations3(Len(arr)) :
                   /\ Abs(arr[t[1]] - arr[t[2]]) <= a
                   /\ Abs(arr[t[2]] - arr[t[3]]) <= b})

\* An array and three bounds, not yet counted.
InitTriplets ==
    /\ users = [i \in {} |-> NoCall]
    /\ next_id = 1
    /\ \E arr \in Arrays, a \in TripletBounds, b \in TripletBounds, c \in TripletBounds :
          last = [NoCall EXCEPT !.op = "input",
                                !.arg = [arr |-> arr, a |-> a, b |-> b, c |-> c]]
    /\ streak = NoStreak
    /\ sessions = Idle

\* The call; ret is the number returned.
CountGoodTriplets ==
    /\ last.op = "input"
    /\ last' = [last EXCEPT !.op = "countGoodTriplets",
                            !.ret = countGoodTriplets(last.arg.arr, last.arg.a,
                                                      last.arg.b, last.arg.c)]
    /\ UNCHANGED <<users, next_id, streak, sessions>>

NextTriplets == CountGoodTriplets

SpecTriplets == InitTriplets /\ [][NextTriplets]_vars

\* ---------------------------------------------------- the whole directory
\* Every sequential operation of the directory in one session, each with
\* inputs that take it down every branch that writes: a login with the
\* right or a wrong password, an email for update (the account's own, a
\* free one, or one another account uses), one token for
\* verify_email_with_token (create issues it or the other one).
DirectoryPatches == {[c \in {"email"} |-> email] : email \in Emails}

NextDirectory ==
    \/ \E email \in Emails : create(email, "Secure*1234")
    \/ \E email \in Emails, password \in Passwords : login_user(email, password)
    \/ \E user_id \in Ids : reset_password(user_id, "Secure*1234")
    \/ \E user_id \in Ids : unlock_user_account(user_id)
    \/ \E user_id \in Ids : verify_email_with_token(user_id, "tokA")
    \/ \E user_id \in Ids, patch \in DirectoryPatches : update(user_id, patch, NoFault)
    \/ \E user_id \in Ids :
          update_professional_status(user_id, TRUE, "none", "ok")
    \/ \E user_id \in Ids : delete(user_id)

SpecDirectory == Init /\ [][NextDirectory]_vars

\* -------------------------------------------------------------------- roles
\* The roles an update gives an account (UserUpdate.role is a string).
RolePatches == {[c \in {"role"} |-> role] : role \in {MANAGER, ADMIN}}

NextRoles ==
    \/ \E email \in Emails : create(email, "Secure*1234")
    \/ \E user_id \in Ids, patch \in RolePatches : update(user_id, patch, NoFault)
    \/ \E user_id \in Ids, token \in Tokens : verify_email_with_token(user_id, token)
    \/ \E user_id \in Ids : delete(user_id)

SpecRoles == Init /\ [][NextRoles]_vars

\* ---------------------------------------------------- stored credentials
\* The operations that are given a password: create (validated by
\* UserCreate), reset_password and update, each with a password that meets
\* the policy and one that does not; and login_user.
NextCredentials ==
    \/ \E email \in Emails, password \in {"Secure*1234", "NoDigits!!"} :
          create_validated(email, password)
    \/ \E user_id \in Ids, password \in {"Other#5678", "Sh*rt12"} :
          reset_password(user_id, password)
    \/ \E user_id \in Ids, password \in {"Other#5678", "Sh*rt12"} :
          update(user_id, [c \in {"password"} |-> password], NoFault)
    \/ \E email \in Emails, password \in {"Secure*1234", "Sh*rt12"} :
          login_user(email, password)

SpecCredentials == Init /\ [][NextCredentials]_vars

\* ------------------------------------------------------------------ search
\* created_at (server_default now(), never written again): accounts are
\* created one after the other, so the time of creation of account i is
\* counted in accounts created so far.
created_at(i) == i

\* The letters in the order of the alphabet, for lower().
UpperCaseLetters ==
    <<"A", "B", "C", "D", "E", "F", "G", "H", "I", "J", "K", "L", "M", "N",
      "O", "P", "Q", "R", "S", "T", "U", "V", "W", "X", "Y", "Z">>

LowerCaseLetters ==
    <<"a", "b", "c", "d", "e", "f", "g", "h", "i", "j", "k", "l", "m", "n",
      "o", "p", "q", "r", "s", "t", "u", "v", "w", "x", "y", "z">>

\* The lower-case form of a character: ILIKE compares without case.
Lower(ch) ==
    IF ch \in UpperCase
    THEN LowerCaseLetters[CHOOSE n \in 1..Len(UpperCaseLetters) : UpperCaseLetters[n] = ch]
    ELSE ch

\* value ILIKE pattern of PostgreSQL, on character sequences: % stands for
\* any run of characters, _ for any one character, every other character
\* for itself without regard to case.
RECURSIVE Like(_, _)
Like(value, pattern) ==
    IF pattern = <<>> THEN value = <<>>
    ELSE IF Head(pattern) = "%"
    THEN Like(value, Tail(pattern)) \/ (value # <<>> /\ Like(Tail(value), pattern))
    ELSE /\ value # <<>>
         /\ Head(pattern) = "_" \/ Lower(Head(pattern)) = Lower(Head(value))
         /\ Like(Tail(value), Tail(pattern))

\* column.ilike(f"%{term}%"); NULL ILIKE anything is not true.
ilike(column, term) ==
    column # NULL /\ Like(Spelling(column), <<"%">> \o Spelling(term) \o <<"%">>)

\* The filters both search_users and count_search_results build from
\* search_params, applied to account i: each is added when its key is
\* present and its value is truthy (search_term, role, created_after,
\* created_before) or not None (email_verified, is_locked).
Matches(table, i, search_params) ==
    LET has(k) == k \in DOMAIN search_params IN
    /\ has("search_term") /\ search_params["search_term"] # ""
       => \/ ilike(table[i].profile["first_name"], search_params["search_term"])
          \/ ilike(table[i].profile["last_name"], search_params["search_term"])
          \/ ilike(table[i].email, search_params["search_term"])
          \/ ilike(table[i].nickname, search_params["search_term"])
    /\ has("role") => table[i].role = search_params["role"]
    /\ has("email_verified") => table[i].email_verified = search_params["email_verified"]
    /\ has("is_locked") => table[i].is_locked = search_params["is_locked"]
    /\ has("created_after") /\ search_params["created_after"] # 0
       => created_at(i) >= search_params["created_after"]
    /\ has("created_before") /\ search_params["created_before"] # 0
       => created_at(i) <= search_params["created_before"]

\* The rows the filtered query selects.
Matching(table, search_params) ==
    {i \in DOMAIN table : Matches(table, i, search_params)}

\* The search_params of the model: none; a term in another case, a term
\* inside a nickname, a term with an underscore, an empty term; a role; each
\* boolean with the value False; a term and a boolean; each date bound.
SearchParams ==
    {[k \in {} |-> NULL]}
    \cup {[k \in {"search_term"} |-> t] : t \in {"ANN", "fox", "a_n", ""}}
    \cup {[k \in {"role"} |-> ANONYMOUS]}
    \cup {[k \in {b} |-> FALSE] : b \in {"email_verified", "is_locked"}}
    \cup {[k \in {"search_term", "role"} |-> IF k = "role" THEN ADMIN ELSE "ANN"]}
    \cup {[k \in {d} |-> 2] : d \in {"created_after", "created_before"}}

\* The number of rows OFFSET skip LIMIT limit leaves of total rows.
PageSize(total, skip, limit) ==
    IF total - skip <= 0 THEN 0
    ELSE IF total - skip < limit THEN total - skip ELSE limit

\* search_users: the query has no ORDER BY, so the page is any PageSize of
\* the matching rows. ret is the set of accounts returned.
search_users(search_params, skip, limit) ==
    /\ \E page \in SUBSET Matching(users, search_params) :
          /\ Cardinality(page) =
                 PageSize(Cardinality(Matching(users, search_params)), skip, limit)
          /\ last' = Call("search_users", NoId, NULL,
                          [search_params |-> search_params, skip |-> skip,
                           limit |-> limit],
                          page)
    /\ streak' = NoStreak
    /\ UNCHANGED <<users, next_id, sessions>>

\* count_search_results: ret is the count.
count_search_results(search_params) ==
    /\ last' = Call("count_search_results", NoId, NULL,
                    [search_params |-> search_params, skip |-> 0, limit |-> 0],
                    Cardinality(Matching(users, search_params)))
    /\ streak' = NoStreak
    /\ UNCHANGED <<users, next_id, sessions>>

NextSearch ==
    \/ \E email \in Emails : create(email, "Secure*1234")
    \/ \E user_id \in Ids,
          patch \in {[c \in {"first_name"} |-> "Ann"]} : update(user_id, patch, NoFault)
    \/ \E search_params \in SearchParams, skip \in {0, 1}, limit \in {1, MaxUsers} :
          search_users(search_params, skip, limit)
    \/ \E search_params \in SearchParams : count_search_results(search_params)

SpecSearch == Init /\ [][NextSearch]_vars

\* ----------------------------------------------------------- failing store
\* The steps the calls other than update can fail at.
Faults == {"SELECT", "COMMIT"}

\* What the caller gets when the store's exception is not caught.
Raised == "SQLAlchemyError"

\* The call ends with the store's exception: nothing was committed.
Escapes(op, id, email, arg) ==
    /\ last' = Call(op, id, email, arg, Raised)
    /\ streak' = NoStreak
    /\ UNCHANGED <<users, next_id, sessions>>

\* A call without a handler for SQLAlchemyError ends with it when its first
\* query fails, or when its commit fails and the call gets as far as a
\* commit.
Uncaught(failing, commits) ==
    failing = "SELECT" \/ (failing = "COMMIT" /\ commits)

\* create with the store failing: its try catches ValidationError only.
\* The email goes out before session.add and session.commit, so a failing
\* commit comes after it.
create_with_store(email, password, failing) ==
    IF Uncaught(failing, ~EmailInUse(users, email))
    THEN /\ last' = [Call("create", NoId, email, password, Raised)
                       EXCEPT !.sent = IF failing = "COMMIT"
                                       THEN VerificationEmails(count(users))
                                       ELSE 0]
         /\ streak' = NoStreak
         /\ UNCHANGED <<users, next_id, sessions>>
    ELSE create(email, password)

register_user_with_store(email, password, failing) ==
    create_with_store(email, password, failing)

\* login_user commits on a password match and, through
\* increment_failed_login_attempts, on a mismatch; it has no try.
login_user_with_store(email, password, failing) ==
    LET id == get_by_email(users, email) IN
    IF Uncaught(failing, id # NoId /\ ~LoginBlocked(users[id]))
    THEN Escapes("login_user", id, email, password)
    ELSE login_user(email, password)

reset_password_with_store(user_id, new_password, failing) ==
    IF Uncaught(failing, get_by_id(users, user_id) # NoId)
    THEN Escapes("reset_password", user_id, NULL, new_password)
    ELSE reset_password(user_id, new_password)

verify_email_with_token_with_store(user_id, token, failing) ==
    IF Uncaught(failing, TokenMatches(users, user_id, token))
    THEN Escapes("verify_email_with_token", user_id, NULL, token)
    ELSE verify_email_with_token(user_id, token)

unlock_user_account_with_store(user_id, failing) ==
    IF Uncaught(failing, CanUnlock(users, user_id))
    THEN Escapes("unlock_user_account", user_id, NULL, NULL)
    ELSE unlock_user_account(user_id)

delete_with_store(user_id, failing) ==
    IF Uncaught(failing, get_by_id(users, user_id) # NoId)
    THEN Escapes("delete", user_id, NULL, NULL)
    ELSE delete(user_id)

NextFaults ==
    \/ \E email \in Emails, failing \in Faults \cup {NoFault} :
          create_with_store(email, "Secure*1234", failing)
    \/ \E email \in Emails, failing \in Faults :
          register_user_with_store(email, "Secure*1234", failing)
    \/ \E email \in Emails, password \in Passwords, failing \in Faults \cup {NoFault} :
          login_user_with_store(email, password, failing)
    \/ \E user_id \in Ids, failing \in Faults :
          reset_password_with_store(user_id, "Secure*1234", failing)
    \/ \E user_id \in Ids, token \in Tokens, failing \in Faults :
          verify_email_with_token_with_store(user_id, token, failing)
    \/ \E user_id \in Ids, failing \in Faults :
          unlock_user_account_with_store(user_id, failing)
    \/ \E user_id \in Ids, failing \in Faults :
          delete_with_store(user_id, failing)
    \/ \E user_id \in Ids, failing \in StoreSteps \cup {NoFault} :
          update(user_id, [c \in {"first_name"} |-> "Ann"], failing)

SpecFaults == Init /\ [][NextFaults]_vars

\* ------------------------------------------------------------------ claims
Min(a, b) == IF a < b THEN a ELSE b

\* The committed account that uses this email, as a set (empty or one row).
WithEmail(email) == {i \in DOMAIN users : users[i].email = email}

\* C1: login_user returns an account exactly when an account with that email
\* exists, its email_verified is true, its is_locked is false and the
\* password verifies against the digest stored for it; otherwise it returns
\* None. (A call leaves these four facts as it found them, except that a
\* wrong password may lock the account, so they are read after the call.)
C1_AuthenticationSound ==
    last.op = "login_user" =>
        (last.ret = "account"
            <=> \E i \in WithEmail(last.email) :
                    /\ last.id = i
                    /\ users[i].email_verified
                    /\ ~users[i].is_locked
                    /\ users[i].hashed_password = <<"bcrypt", last.arg>>)

\* A login that returned the account.
C1_Witness == last.op = "login_user" /\ last.ret = "account"

\* C2: from a verified, unlocked account with counter 0, the n-th wrong
\* password in a row (n <= K) returns None and leaves the counter at n; the
\* account is unlocked while n < K and locked, in that same state, at n = K.
C2_LockoutThreshold ==
    streak.n >= 1 =>
        /\ streak.n <= max_login_attempts
        /\ streak.id \in DOMAIN users
        /\ last.op = "login_user" /\ last.id = streak.id /\ last.ret = "None"
        /\ users[streak.id].failed_login_attempts = streak.n
        /\ (users[streak.id].is_locked <=> (streak.n = max_login_attempts))

\* The K-th wrong password in a row has just locked the account.
C2_Witness ==
    /\ streak.n = max_login_attempts
    /\ streak.id \in DOMAIN users
    /\ users[streak.id].is_locked

\* C3: a login_user call on a locked account returns None whatever the
\* password, and the login_user call that directly follows a successful
\* unlock_user_account of the account, made with its password, returns it.
C3_LockedUntilUnlocked ==
    last.op = "login_user" =>
        /\ \A i \in WithEmail(last.email) :
              users[i].is_locked => last.ret = "None"
        /\ \A i \in WithEmail(last.email) :
              (last.unlocked = i /\ users[i].hashed_password = <<"bcrypt", last.arg>>)
                  => last.ret = "account" /\ last.id = i

\* The login after an unlock went through.
C3_Witness ==
    /\ last.op = "login_user"
    /\ last.unlocked # NoId
    /\ last.unlocked = last.id
    /\ last.ret = "account"

\* C5: failed_login_attempts is 0 right after a login_user that returned an
\* account, a reset_password that returned true and an unlock_user_account
\* that returned true.
C5_CounterReset ==
    (\/ last.op = "login_user" /\ last.ret = "account"
     \/ last.op = "reset_password" /\ last.ret = "True"
     \/ last.op = "unlock_user_account" /\ last.ret = "True")
        => /\ last.id \in DOMAIN users
           /\ users[last.id].failed_login_attempts = 0

\* An unlock has just returned true: the counter of the account, which was
\* locked, is 0.
C5_Witness ==
    /\ last.op = "unlock_user_account"
    /\ last.ret = "True"
    /\ last.id \in DOMAIN users
    /\ users[last.id].failed_login_attempts = 0

\* The row of an account as create stores it when it is the bootstrap account.
StoredAsAdmin(row) ==
    row.role = ADMIN /\ row.email_verified /\ row.verification_token = NULL

\* The row of an account as create stores it otherwise.
StoredAsAnonymous(row) ==
    row.role = ANONYMOUS /\ ~row.email_verified /\ row.verification_token # NULL

\* C6 as stated: the first account ever created (id 1, ids being handed out
\* in order of creation) is stored as ADMIN, verified, without a token, and
\* every account created after it as ANONYMOUS, unverified, with a token.
C6_FirstEverOnly ==
    (last.op = "create" /\ last.ret = "account") =>
        /\ last.id \in DOMAIN users
        /\ IF last.id = 1 THEN StoredAsAdmin(users[last.id])
                          ELSE StoredAsAnonymous(users[last.id])

\* C6 amended: an account created while the directory holds no account is
\* stored as ADMIN, verified, without a token; an account created while it
\* holds at least one is stored as ANONYMOUS, unverified, with a token.
\* (create adds one row, so the count it read is the count now less one.)
C6_BootstrapWhenEmpty ==
    (last.op = "create" /\ last.ret = "account") =>
        /\ last.id \in DOMAIN users
        /\ IF count(users) - 1 = 0 THEN StoredAsAdmin(users[last.id])
                                   ELSE StoredAsAnonymous(users[last.id])

\* An account that is not the first ever created was stored as ADMIN: every
\* account before it had been deleted.
C6_Witness ==
    /\ last.op = "create" /\ last.ret = "account"
    /\ last.id > 1
    /\ last.id \in DOMAIN users
    /\ StoredAsAdmin(users[last.id])

\* C8: create with an email an account already uses returns None, and the
\* table (the number of rows, every column of every row) is as it was.
C8_DuplicateEmailRejected ==
    [][(last'.op = "create" /\ \E i \in DOMAIN users : users[i].email = last'.email)
          => (last'.ret = "None" /\ users' = users /\ next_id' = next_id)]_vars

\* A create was refused for an email in use.
C8_Witness ==
    /\ last.op = "create" /\ last.ret = "None"
    /\ WithEmail(last.email) # {}

\* C10: verify_email_with_token on an absent account, or with a token that
\* is not the stored one (an account without a token included), returns
\* false and changes no row.
C10_VerifyMismatchNoMutation ==
    [][(/\ last'.op = "verify_email_with_token"
        /\ \/ last'.id \notin DOMAIN users
           \/ users[last'.id].verification_token # last'.arg)
          => (last'.ret = "False" /\ users' = users)]_vars

\* A verification refused on an account that has no token: the bootstrap
\* account keeps its role.
C10_Witness ==
    /\ last.op = "verify_email_with_token" /\ last.ret = "False"
    /\ last.id \in DOMAIN users
    /\ users[last.id].verification_token = NULL
    /\ users[last.id].role = ADMIN
    /\ users[last.id].email_verified

\* C4 as stated: once N concurrent login_user calls with a wrong password for
\* the same verified, unlocked account have all finished, the counter is
\* min(N, K) and the account is locked exactly when N >= K.
AllLoginsWrong ==
    \A s \in LoginSessions :
        /\ sessions[s].pc = "done"
        /\ sessions[s].email = users[1].email
        /\ users[1].hashed_password # <<"bcrypt", sessions[s].arg>>

C4_NoLostIncrement ==
    AllLoginsWrong =>
        /\ users[1].failed_login_attempts = Min(NLogins, max_login_attempts)
        /\ (users[1].is_locked <=> (NLogins >= max_login_attempts))

\* C7: a create session that read count == 0 stores its account as ADMIN and
\* verified whatever was committed between its count and its insert.
C7_CountZeroStoresAdmin ==
    \A s \in CreateSessions :
        (sessions[s].pc = "done" /\ sessions[s].ret = "account"
            /\ sessions[s].user_count = 0)
          => /\ sessions[s].id \in DOMAIN users
             /\ users[sessions[s].id].role = ADMIN
             /\ users[sessions[s].id].email_verified

\* Two creates with distinct emails both read count == 0 and both accounts
\* are stored as ADMIN, verified.
C7_Witness ==
    \E s, t \in CreateSessions :
        /\ s # t
        /\ sessions[s].pc = "done" /\ sessions[s].ret = "account"
        /\ sessions[t].pc = "done" /\ sessions[t].ret = "account"
        /\ sessions[s].user_count = 0 /\ sessions[t].user_count = 0
        /\ sessions[s].email # sessions[t].email
        /\ \A i \in {sessions[s].id, sessions[t].id} :
              i \in DOMAIN users /\ users[i].role = ADMIN /\ users[i].email_verified

\* C9 as stated: of two create calls with the same email that both passed
\* the email check, one stores the account and the other returns None, and
\* one account with that email exists.
PassedEmailCheck(s) == sessions[s].pc = "done" /\ sessions[s].nickname # NULL

C9_SecondWriterReturnsNone ==
    \A s, t \in CreateSessions :
        (s # t /\ PassedEmailCheck(s) /\ PassedEmailCheck(t)
            /\ sessions[s].email = sessions[t].email)
          => /\ {sessions[s].ret, sessions[t].ret} = {"account", "None"}
             /\ Cardinality(WithEmail(sessions[s].email)) = 1

\* -------------------------------------------------------- claims C11..C20
\* The call that made this step is op.
Made(op) == last'.op = op

\* C11: verification tokens are single-use. A verify_email_with_token call
\* with the account's stored token returns True and leaves the account
\* verified, its token cleared and its role AUTHENTICATED; a cleared token is
\* never set again while the account exists, and every verify_email_with_token
\* call on an account whose token is cleared returns False, whichever token
\* it is given.
C11_TokenSingleUse ==
    [][ /\ Made("verify_email_with_token") /\ last'.id \in DOMAIN users
           /\ users[last'.id].verification_token = last'.arg
           => /\ last'.ret = "True"
              /\ users'[last'.id].email_verified
              /\ users'[last'.id].verification_token = NULL
              /\ users'[last'.id].role = AUTHENTICATED
        /\ \A i \in DOMAIN users \cap DOMAIN users' :
              users[i].verification_token = NULL
              => users'[i].verification_token = NULL
        /\ Made("verify_email_with_token") /\ last'.id \in DOMAIN users
           /\ users[last'.id].verification_token = NULL
           => last'.ret = "False" /\ users' = users ]_vars

\* C11 witness: a verify_email_with_token call was refused on an account that
\* an earlier call verified (only that call gives the role AUTHENTICATED).
C11_Witness ==
    /\ last.op = "verify_email_with_token" /\ last.ret = "False"
    /\ last.id \in DOMAIN users
    /\ users[last.id].role = AUTHENTICATED
    /\ users[last.id].email_verified
    /\ users[last.id].verification_token = NULL

\* C12: an account has a verification token exactly when its email is not
\* verified.
C12_TokenIffUnverified ==
    \A i \in DOMAIN users :
        (users[i].verification_token # NULL) <=> (users[i].email_verified = FALSE)

\* C12 witness: an account with a pending token next to a verified account
\* without one.
C12_Witness ==
    \E i, j \in DOMAIN users :
        /\ users[i].verification_token # NULL /\ ~users[i].email_verified
        /\ users[j].verification_token = NULL /\ users[j].email_verified

\* What reset_password(id, new) does by itself: True on an existing account,
\* whose digest becomes the digest of new, whose counter becomes 0 and whose
\* lock is cleared; False on an absent id, and nothing written.
ResetEffect ==
    Made("reset_password") =>
        IF last'.id \in DOMAIN users
        THEN /\ last'.ret = "True"
             /\ last'.old = users[last'.id].hashed_password
             /\ users' = Put(users, last'.id,
                     [users[last'.id] EXCEPT
                         !.hashed_password = hash_password(last'.arg),
                         !.failed_login_attempts = 0,
                         !.is_locked = FALSE])
        ELSE last'.ret = "False" /\ users' = users

\* The step is a login_user call on the account whose password the call just
\* before it reset.
LoginAfterReset ==
    /\ last.op = "reset_password" /\ last.ret = "True"
    /\ Made("login_user")
    /\ last.id \in DOMAIN users
    /\ last'.email = users[last.id].email

C15_UnlockOnlyWhenLocked ==
    [][ Made("unlock_user_account") =>
          IF last'.id \in DOMAIN users /\ users[last'.id].is_locked
          THEN /\ last'.ret = "True"
               /\ users' = Put(users, last'.id,
                       [users[last'.id] EXCEPT !.is_locked = FALSE,
                                                !.failed_login_attempts = 0])
          ELSE last'.ret = "False" /\ users' = users ]_vars

\* C15 witness: unlock_user_account was refused on an unlocked account whose
\* counter is not 0, and the counter is still there.
C15_Witness ==
    /\ last.op = "unlock_user_account" /\ last.ret = "False"
    /\ last.id \in DOMAIN users
    /\ ~users[last.id].is_locked
    /\ users[last.id].failed_login_attempts > 0

C17_CommitThenNotify ==
    [][ Made("update_professional_status") /\ last'.sent = 1 =>
          /\ last'.seen = "True"
          /\ last'.ret = "account"
          /\ users'[last'.id].is_professional
          /\ users'[last'.id].professional_status_updated_at = "now" ]_vars

\* C17 witness: the notifier raised, and the call returned the account with
\* the new status committed.
C17_Witness ==
    /\ last.op = "update_professional_status" /\ last.service = "raises"
    /\ last.sent = 1 /\ last.seen = "True" /\ last.ret = "account"
    /\ users[last.id].is_professional

\* C13: no two stored accounts share an email, none share a nickname, and
\* every stored account has an email and a nickname.
C13_UniqueNonNull ==
    \A i \in DOMAIN users :
        /\ users[i].email # NULL
        /\ users[i].nickname # NULL
        /\ \A j \in DOMAIN users \ {i} :
              users[j].email # users[i].email /\ users[j].nickname # users[i].nickname

\* C13 witness: update was asked to give an account the email another
\* account has.
C13_Witness ==
    /\ last.op = "update" /\ last.id \in DOMAIN users
    /\ "email" \in DOMAIN last.arg
    /\ \E j \in DOMAIN users \ {last.id} : users[j].email = last.arg["email"]

\* C18 as stated: a call that reports failure (None or False) leaves every
\* stored account as it was. update refutes it: its UPDATE is committed by
\* _execute_query before the read and the second commit that can still fail.
C18_FailureAtomic ==
    [][ last'.ret \in {"None", "False"} => users' = users ]_vars

\* C19 as stated: no call ends with the store's exception; a failing store
\* makes the call return None or False. Every call but update refutes it.
C19_NoStoreErrorEscapes == last.ret # Raised

\* The login_user call that made this step had a cause to fail: no account
\* has the email, or the account is unverified, or locked, or the password
\* is not the account's.
LoginFailureCause ==
    /\ Made("login_user")
    /\ LET id == get_by_email(users, last'.email) IN
          \/ id = NoId
          \/ ~users[id].email_verified
          \/ users[id].is_locked
          \/ ~verify_password(last'.arg, users[id].hashed_password)

\* C20 as stated: login_user gives the caller None, and no exception,
\* whichever cause made it fail. A wrong password on a verified, unlocked
\* account refutes it when the commit of the counter fails (C19): that call
\* raises, the call for an unknown email returns None.
C20_SameFailureOutcome ==
    [][ LoginFailureCause => last'.ret = "None" ]_vars

\* -------------------------------------------------------- claims C21..C30
\* C21: update_profile_section on an existing account with a section name
\* that is none of basic_info, professional_info, preferences returns None,
\* whatever the payload, and leaves every account as it was.
C21_InvalidSectionRefused ==
    [][ /\ Made("update_profile_section")
        /\ last'.id \in DOMAIN users
        /\ last'.arg.section \notin {"basic_info", "professional_info", "preferences"}
        => last'.ret = "None" /\ users' = users ]_vars

\* C21 witness: a call with an unknown section and a payload that carries a
\* profile field was refused on an existing account.
C21_Witness ==
    /\ last.op = "update_profile_section" /\ last.ret = "None"
    /\ last.id \in DOMAIN users
    /\ last.arg.section = "settings"
    /\ "first_name" \in DOMAIN last.arg.section_data
    /\ users[last.id].profile["first_name"] = NULL

\* The fields of each section, as the contract lists them.
Whitelist(section) ==
    IF section = "basic_info"
    THEN {"first_name", "last_name", "bio", "profile_picture_url",
          "phone_number", "date_of_birth", "location"}
    ELSE IF section = "professional_info"
    THEN {"linkedin_profile_url", "github_profile_url", "twitter_profile_url",
          "personal_website_url", "skills", "work_experience", "education"}
    ELSE {"interests", "preferred_language", "timezone"}

\* C22: update_profile_section with a valid section name, on an existing
\* account, writes the payload's keys that are in the section's whitelist
\* and nothing else: the call succeeds exactly when one of those keys has a
\* value, the other keys of the payload have no effect, and the profile
\* fields outside the payload's whitelisted keys, every other column but
\* profile_completion, and every other account are as they were.
C22_SectionWhitelist ==
    [][ /\ Made("update_profile_section")
        /\ last'.id \in DOMAIN users
        /\ last'.arg.section \in {"basic_info", "professional_info", "preferences"}
        => LET id == last'.id
               data == last'.arg.section_data
               kept == DOMAIN data \cap Whitelist(last'.arg.section)
           IN /\ last'.ret = "account" <=> \E k \in kept : data[k] # NULL
              /\ DOMAIN users' = DOMAIN users
              /\ \A j \in DOMAIN users \ {id} : users'[j] = users[j]
              /\ \A c \in DOMAIN users[id] \ {"profile", "profile_completion"} :
                    users'[id][c] = users[id][c]
              /\ \A f \in ProfileFields :
                    users'[id].profile[f] =
                        IF f \in kept /\ last'.ret = "account"
                        THEN data[f] ELSE users[id].profile[f] ]_vars

\* C22 witness: a call whose payload had a key outside the section's
\* whitelist succeeded, and wrote the whitelisted key.
C22_Witness ==
    /\ last.op = "update_profile_section" /\ last.ret = "account"
    /\ last.arg.section = "basic_info"
    /\ {"first_name", "timezone"} \subseteq DOMAIN last.arg.section_data
    /\ users[last.id].profile["first_name"] = "Ann"
    /\ users[last.id].profile["timezone"] = NULL

\* C23 as stated: the profile_completion stored for an account is what the
\* completion calculation gives for its 17 profile fields. create refutes
\* it: it stores the profile fields and the profile_completion of its input
\* and never calls the calculation.
C23_CompletionIsComputed ==
    \A i \in DOMAIN users :
        users[i].profile_completion =
            calculate_profile_completion(users[i]).profile_completion

\* C25 as stated: after get_profile_completion returned the details of an
\* account, the committed profile_completion of the account is the
\* overall_completion returned. The call does not commit, so a stored value
\* that was stale before the call is stale after it.
C25_CompletionPersisted ==
    last.op = "get_profile_completion" /\ last.id \in DOMAIN users
    => /\ last.ret = "details"
       /\ users[last.id].profile_completion = last.overall_completion

\* The fields of the account's profile that are filled.
Filled(user) == {f \in ProfileFields : user.profile[f] # NULL}

\* C24: for every combination of filled and empty profile fields,
\* calculate_profile_completion gives an integer in 0..100, 0 when no field
\* is filled and 100 when all 17 are, a greater value when one more field is
\* filled, and stores on the row the value it returns.
C24_CompletionRange ==
    \A i \in DOMAIN users :
        LET value == calculate_profile_completion(users[i]).profile_completion IN
        /\ value \in 0..100
        /\ Filled(users[i]) = {} => value = 0
        /\ Filled(users[i]) = ProfileFields => value = 100
        /\ \A f \in ProfileFields \ Filled(users[i]) :
              calculate_profile_completion(
                  [users[i] EXCEPT !.profile[f] = "filled"]).profile_completion > value
        /\ last.op = "calculate_profile_completion" /\ last.id = i
           => users[i].profile_completion = value /\ last.overall_completion = value

\* C24 witness: the calculation ran on an account with 9 of the 17 fields
\* filled and stored 53.
C24_Witness ==
    /\ last.op = "calculate_profile_completion"
    /\ Cardinality(Filled(users[last.id])) = 9
    /\ users[last.id].profile_completion = 53

\* C26 as stated: when update is given a patch with a password and returns
\* the account, the digest stored for the account is the hash of that
\* password. UserUpdate has no password field, so the patch's password never
\* reaches validated_data and the digest is the old one.
C26_UpdateHashesPassword ==
    [][ /\ Made("update") /\ last'.ret = "account"
        /\ "password" \in DOMAIN last'.arg
        => users'[last'.id].hashed_password = hash_password(last'.arg["password"]) ]_vars

\* The password meets the policy as the contract words it: at least 8
\* characters, with an uppercase letter, a lowercase letter, a digit and a
\* character that is neither letter nor digit.
MeetsPolicy(password) ==
    LET v == Spelling(password)
        has(class) == {n \in 1..Len(v) : v[n] \in class} # {}
    IN /\ ~(Len(v) < 8)
       /\ has(UpperCase) /\ has(LowerCase) /\ has(Digits)
       /\ {n \in 1..Len(v) : ~(v[n] \in UpperCase \cup LowerCase \cup Digits)} # {}

\* C27: create with a password that violates the policy returns None,
\* stores no account and sends no verification email.
C27_WeakPasswordRejected ==
    [][ Made("create") /\ ~MeetsPolicy(last'.arg)
        => /\ last'.ret = "None"
           /\ last'.sent = 0
           /\ users' = users /\ next_id' = next_id ]_vars

\* C27 witness: a create call with a password without a digit was refused
\* although its email was free and the directory was not empty.
C27_Witness ==
    /\ last.op = "create" /\ last.ret = "None" /\ last.sent = 0
    /\ last.arg = "NoDigits!!"
    /\ ~EmailInUse(users, last.email)
    /\ count(users) = 1

\* C28 as stated: create sends one verification email when it stores an
\* account that is not the first, and none when it stores the first account
\* or ends in failure. A failing commit refutes it: the email has gone out
\* before session.add and session.commit.
C28_EmailOnlyForStoredAccount ==
    [][ Made("create")
        => last'.sent = IF last'.ret = "account" /\ count(users) > 0
                        THEN 1 ELSE 0 ]_vars

\* C30: delete(id) returns True exactly when the account exists, and then
\* the account is gone (no row has its id or, its email being unique, its
\* email; the count is one less); otherwise it returns False and changes
\* nothing. An id that has been deleted never comes back, every later
\* reset_password, verify_email_with_token, unlock_user_account or delete on
\* an absent id reports False and writes nothing, and create accepts an
\* email that no stored account has.
C30_DeleteIsFinal ==
    [][ /\ Made("delete") =>
              IF last'.id \in DOMAIN users
              THEN /\ last'.ret = "True"
                   /\ DOMAIN users' = DOMAIN users \ {last'.id}
                   /\ \A j \in DOMAIN users' : users'[j] = users[j]
                   /\ get_by_id(users', last'.id) = NoId
                   /\ get_by_email(users', users[last'.id].email) = NoId
                   /\ count(users') = count(users) - 1
              ELSE last'.ret = "False" /\ users' = users
        /\ \A i \in 1..(next_id - 1) :
              i \notin DOMAIN users => i \notin DOMAIN users'
        /\ last'.op \in {"delete", "reset_password", "verify_email_with_token",
                         "unlock_user_account"}
           /\ last'.id \notin DOMAIN users
           => last'.ret = "False" /\ users' = users
        /\ Made("create") /\ ~EmailInUse(users, last'.email)
           => /\ last'.ret = "account"
              /\ users'[last'.id].email = last'.email ]_vars

\* C30 witness: delete removed one of two accounts; the other remains.
C30_Witness ==
    /\ last.op = "delete" /\ last.ret = "True"
    /\ last.id \notin DOMAIN users
    /\ count(users) = 1

\* The lower-case form of a string.
LowerAll(text) == [n \in 1..Len(text) |-> Lower(text[n])]

\* term occurs in column as a substring, without regard to case.
Substring(column, term) ==
    /\ column # NULL
    /\ \E k \in 0..Len(Spelling(column)) :
          /\ k + Len(Spelling(term)) <= Len(Spelling(column))
          /\ \A n \in 1..Len(Spelling(term)) :
                LowerAll(Spelling(column))[k + n] = LowerAll(Spelling(term))[n]

\* The accounts that satisfy the filters present in search_params, the term
\* read as a substring.
Satisfying(table, search_params) ==
    LET has(k) == k \in DOMAIN search_params IN
    {i \in DOMAIN table :
        /\ has("search_term")
           => \/ Substring(table[i].profile["first_name"], search_params["search_term"])
              \/ Substring(table[i].profile["last_name"], search_params["search_term"])
              \/ Substring(table[i].email, search_params["search_term"])
              \/ Substring(table[i].nickname, search_params["search_term"])
        /\ has("role") => table[i].role = search_params["role"]
        /\ has("email_verified")
           => table[i].email_verified = search_params["email_verified"]
        /\ has("is_locked") => table[i].is_locked = search_params["is_locked"]
        /\ has("created_after") => created_at(i) >= search_params["created_after"]
        /\ has("created_before") => created_at(i) <= search_params["created_before"]}

\* C29: search_users and count_search_results apply the same predicate, the
\* conjunction of the filters present, the search term being a substring
\* without regard to case of first name, last name, email or nickname:
\* search_users returns only accounts that satisfy it and at most limit of
\* them, with skip = 0 and limit at least the total it returns as many
\* accounts as there are, and count_search_results returns their number.
C29_SearchAndCountAgree ==
    /\ last.op = "search_users" =>
          LET stated == Satisfying(users, last.arg.search_params) IN
          /\ last.ret \subseteq stated
          /\ Cardinality(last.ret) <= last.arg.limit
          /\ last.arg.skip = 0 /\ last.arg.limit >= Cardinality(stated)
             => Cardinality(last.ret) = Cardinality(stated)
    /\ last.op = "count_search_results" =>
          last.ret = Cardinality(Satisfying(users, last.arg.search_params))


\* ------------------------------------------------------- claims C31..C39
\* C31: create generates a nickname only when the input carries none: a
\* nickname supplied by the caller is the one stored; a generated nickname
\* is the first draw that is not in use, and the stored nickname differs
\* from that of every other account.
C31_NicknameKeptOrGenerated ==
    last.op = "create" /\ last.ret = "account" =>
        /\ last.arg.nickname # NULL => users[last.id].nickname = last.arg.nickname
        /\ last.arg.nickname = NULL =>
              users[last.id].nickname = last.arg.draws[Len(last.arg.draws)]
        /\ \A i \in DOMAIN users \ {last.id} :
              users[i].nickname # users[last.id].nickname


\* C32: verification tokens expire: verify_email_with_token called with the
\* token stored for the account returns False, and leaves the account
\* unverified, when the token was issued longer ago than
\* verification_token_expire_hours.
C32_ExpiredTokenRefused ==
    [][(/\ Made("verify_email_with_token")
        /\ get_by_id(users, last'.id) # NoId
        /\ users[last'.id].verification_token = last'.arg.token
        /\ last'.arg.age > verification_token_expire_hours)
       => /\ last'.ret = "False"
          /\ ~users'[last'.id].email_verified]_vars


\* C33: countGoodTriplets(arr, a, b, c) is the number of index triples
\* i < j < k with |arr[i]-arr[j]| <= a, |arr[j]-arr[k]| <= b and
\* |arr[i]-arr[k]| <= c; it is 0 for every array of fewer than 3 elements.
C33_CountsGoodTriplets ==
    last.op = "countGoodTriplets" =>
        LET arr == last.arg.arr
            diff(i, j) == IF arr[i] >= arr[j] THEN arr[i] - arr[j] ELSE arr[j] - arr[i]
        IN /\ last.ret =
                 Cardinality({t \in (1..Len(arr)) \X (1..Len(arr)) \X (1..Len(arr)) :
                                 /\ t[1] < t[2] /\ t[2] < t[3]
                                 /\ diff(t[1], t[2]) <= last.arg.a
                                 /\ diff(t[2], t[3]) <= last.arg.b
                                 /\ diff(t[1], t[3]) <= last.arg.c})
           /\ Len(arr) < 3 => last.ret = 0

\* Four elements: one triple is good, one passes the tests on a and b and
\* fails that on c, two fail the test on b; the differences are of both
\* signs.
C33_Witness ==
    /\ last.op = "countGoodTriplets"
    /\ last.arg.arr = <<2, 0, 1, -1>>
    /\ last.arg.a = 2 /\ last.arg.b = 1 /\ last.arg.c = 1
    /\ last.ret = 1


\* C34: in every state reached through create, login_user, reset_password,
\* unlock_user_account, verify_email_with_token, update,
\* update_professional_status and delete, every account has
\* 0 <= failed_login_attempts <= max_login_attempts and is locked if and
\* only if failed_login_attempts >= max_login_attempts.
C34_LockIffCounterAtMax ==
    \A i \in DOMAIN users :
        /\ users[i].failed_login_attempts \in 0..max_login_attempts
        /\ users[i].is_locked <=> users[i].failed_login_attempts >= max_login_attempts

\* A locked account next to one that has failed logins and is not locked,
\* after an update.
C34_Witness ==
    /\ last.op = "update" /\ last.ret = "account"
    /\ \E i \in DOMAIN users : users[i].is_locked
    /\ \E i \in DOMAIN users :
          ~users[i].is_locked /\ users[i].failed_login_attempts > 0


\* C35: a login_user call that fails because no account has the email, or
\* the account is unverified, or it is locked, changes no account; the
\* counter of an account goes up only by a wrong password on that account,
\* existing, verified and unlocked; so a login never locks an unverified
\* account.
C35_BlockedLoginWritesNothing ==
    [][ Made("login_user") =>
          LET id == get_by_email(users, last'.email) IN
          /\ (id = NoId \/ ~users[id].email_verified \/ users[id].is_locked)
             => last'.ret = "None" /\ users' = users
          /\ \A i \in DOMAIN users :
                users'[i].failed_login_attempts > users[i].failed_login_attempts
                => /\ i = id
                   /\ users[i].email_verified /\ ~users[i].is_locked
                   /\ ~verify_password(last'.arg, users[i].hashed_password)
          /\ \A i \in DOMAIN users :
                ~users[i].email_verified => users'[i].is_locked = users[i].is_locked
      ]_vars

\* A wrong password was just given for an unverified account, whose counter
\* is 0 and which is not locked.
C35_Witness ==
    /\ last.op = "login_user" /\ last.ret = "None"
    /\ last.id \in DOMAIN users
    /\ ~users[last.id].email_verified
    /\ ~verify_password(last.arg, users[last.id].hashed_password)
    /\ users[last.id].failed_login_attempts = 0
    /\ ~users[last.id].is_locked


\* C36: email verification never lowers privileges: a
\* verify_email_with_token call never changes the role of an account whose
\* role is MANAGER or ADMIN, also when the role was given by update while
\* the token was pending; the only role it changes is ANONYMOUS, to
\* AUTHENTICATED.
C36_VerifyKeepsPrivileges ==
    [][ Made("verify_email_with_token") =>
          \A i \in DOMAIN users :
              /\ users[i].role \in {MANAGER, ADMIN} => users'[i].role = users[i].role
              /\ users'[i].role # users[i].role
                 => users[i].role = ANONYMOUS /\ users'[i].role = AUTHENTICATED
      ]_vars


\* C37: update reports a rejected write as failure: when the store rejects
\* the UPDATE statement (the patch gives the account an email or nickname
\* another account uses, or none), update returns None and every account
\* is left as it was.
C37_RejectedUpdateReturnsNone ==
    [][ /\ Made("update")
        /\ ValidPatch(last'.arg)
        /\ get_by_id(users, last'.id) # NoId
        /\ ConstraintViolation(users, last'.id,
                               PatchedRow(users[last'.id], Values(last'.arg)))
        => last'.ret = "None" /\ users' = users ]_vars


\* C38: the digest stored for an account is always the hash of a password
\* that meets the policy enforced at creation, whichever of create, update
\* and reset_password set it last: reset_password stores no password that
\* breaks the policy.
C38_StoredCredentialMeetsPolicy ==
    \A i \in DOMAIN users :
        \E password \in Passwords \cup WeakPasswords :
            /\ users[i].hashed_password = hash_password(password)
            /\ MeetsPolicy(password)


\* 100 * k / n has the fraction one half.
Tie(k, n) == 2 * ((100 * k) % n) = n

\* 100 * k / n rounded, halves up.
HalfUp(k, n) == (200 * k + n) \div (2 * n)

\* C39: rounding is tie-free: the overall percentage 100*k/17 and the
\* section percentages 100*k/7 and 100*k/3 never have the fraction one
\* half, so that rounding halves to even and rounding halves up agree, and
\* the result is floor((200*k + n) / (2*n)) for n = 17, 7, 3.
C39_RoundingTieFree ==
    /\ last.op = "calculate_profile_completion" =>
          LET k == Cardinality(Filled(users[last.id])) IN
          /\ ~Tie(k, 17)
          /\ last.overall_completion = HalfUp(k, 17)
          /\ users[last.id].profile_completion = HalfUp(k, 17)
    /\ last.op = "get_profile_completion_details" =>
          \A section \in DetailSections :
              LET fields == Whitelist(section)
                  k == Cardinality(fields \cap Filled(users[last.id]))
              IN /\ Cardinality(fields) \in {7, 3}
                 /\ ~Tie(k, Cardinality(fields))
                 /\ last.ret.section_completion[section]
                       = HalfUp(k, Cardinality(fields))

\* The details of an account with 4 of 7, 7 of 7 and 1 of 3 fields filled
\* (57, 100 and 33 per cent), 12 of 17 in all.
C39_Witness ==
    /\ last.op = "get_profile_completion_details"
    /\ last.ret.section_completion["basic_info"] = 57
    /\ last.ret.section_completion["professional_info"] = 100
    /\ last.ret.section_completion["preferences"] = 33
    /\ last.ret.overall_completion = 71

====
